---- MODULE Spec2Model ----
(***************************************************************************)
(* A model of project-index: the indexer (core/indexer.ts), the file       *)
(* watcher (core/watcher.ts), the debounce helper (utils/debounce.ts) and  *)
(* the way the index file is written to disk.                              *)
(*                                                                         *)
(* Three specifications share the module:                                  *)
(*   Spec         the indexer driven by the CLI commands index / update    *)
(*                and by the watcher's unlink removal, each run to its     *)
(*                save, over a source tree that changes in between;        *)
(*   SpecWatcher  the IndexWatcher object on the Node event loop: one      *)
(*                action per callback turn (event, timer, signal, promise  *)
(*                continuation);                                           *)
(*   SpecSave     writeFileSync as saveIndex and writeCache use it: open   *)
(*                with truncation, write, close, with a concurrent reader. *)
(***************************************************************************)
EXTENDS Integers, Sequences, FiniteSets, TLC

\* ------------------------------------------------------------------ bounds
MaxClock == 3        \* the clock (Date.now) runs 0..MaxClock
MaxFsChanges == 3    \* SpecWatcher: number of changes made to the tree
MaxSignals == 1      \* SpecWatcher: number of shutdown signals delivered
WaitTicks == 2       \* SpecWatcher: the debounce wait (1000 ms) in timer ticks
MaxChunks == 2       \* SpecSave: a file body is written in 1..MaxChunks chunks
MaxSaves == 2        \* SpecSave: number of writes of each file

\* ------------------------------------------------------------- source tree
\* Repo-relative paths, in the order files.sort() gives them.
Paths == <<"a.ts", "b.ts">>
PathSet == {Paths[i] : i \in 1..Len(Paths)}

Absent == "absent"
\* File contents.  Each stands for one text; ParseResult gives what the
\* TypeScript parser extracts from it.
Contents == {"c1", "c2"}
\* A text on which parser.parse throws.
ParseThrows == {"c3"}

Sym(name, line, children) == [name |-> name, line |-> line, children |-> children]

ParseResult ==
  [c1 |-> [imports |-> << [module |-> "./b"], [module |-> "lib"] >>,
           symbols |-> << Sym("C", 1, << Sym("m", 2, << >>) >>), Sym("f", 4, << >>) >>],
   c2 |-> [imports |-> << [module |-> "./a"] >>,
           symbols |-> << Sym("f", 1, << >>) >>]]

\* Module specifiers that start with '.', with the text that follows "./".
RelativeBase == [x \in {"./a", "./b"} |-> IF x = "./a" THEN "a" ELSE "b"]

SeqToSet(s) == {s[i] : i \in 1..Len(s)}
Put(map, k, v) == [x \in (DOMAIN map) \cup {k} |-> IF x = k THEN v ELSE map[x]]
EmptyMap == [x \in {} |-> x]

\* ------------------------------------------------------------------- state
VARIABLES
  tree,        \* path -> Absent or a content: the files under projectRoot
  now,         \* the wall clock
  diskState,   \* "none": no index file; "ok": a complete index; "torn": an
               \* index file cut short, which JSON.parse rejects
  disk,        \* the ProjectIndex stored in the index file when diskState = "ok"
  last,        \* the last operation run: what it was given and how its save went
  \* --- the watch process (SpecWatcher)
  started,     \* "no", or how the watch command was run: "plain" or "daemon"
  isRunning,   \* IndexWatcher.isRunning
  watcher,     \* IndexWatcher.watcher: "null" or "set"
  fsw,         \* the chokidar FSWatcher: "none", "open" or "closed"
  readyPending,\* chokidar has still to emit 'ready'
  pendingFiles,\* IndexWatcher.pendingFiles, a Set: its paths in insertion order
  timeoutId,   \* debounce: Undefined, or the ticks left until `later` runs
  slices,      \* processPendingUpdates calls that have not returned
  stops,       \* stop() calls that have not returned
  fsQueue,     \* changes of the tree chokidar has still to report
  fsChanges,   \* number of changes made to the tree
  signals,     \* number of shutdown signals delivered
  quiet,       \* ticks since the last filesystem event was reported
  burst,       \* paths of the events of the current burst
  owed,        \* paths that were pending or in a slice when a shutdown signal
               \* arrived and have not been saved or unlinked since
  exited,      \* the process has exited
  \* --- the index file and the cache file as byte containers (SpecSave)
  fsFile,      \* target -> what the file holds: `have` of the `size` chunks of
               \* document number `doc`; doc 0 is "no file"
  writer,      \* target -> the writeFileSync call in progress, if any
  seen,        \* target -> what the last read of the file by another process got
  saves,       \* target -> number of writes begun
  \* --- the embedding provider (SpecEmbedder, SpecServer)
  instance,    \* Embedder.instance: << >>, or the one Embedder object
  made,        \* number of Embedder objects constructed
  got,         \* the last Embedder.get call: its arguments and what it returned
  \* --- the resident server (SpecServer)
  stateCache,  \* ServerState.cache: << >> for null, or the DocCache
  cacheFile,   \* PROJECT_INDEX.vectors.jsonl: << >> for no file, or a DocCache
  response,    \* the last request and the response sent for it
  memo,        \* request -> the response it got since the last /reload
  requests,    \* number of requests served
  \* --- the impact command (SpecImpact)
  impactIn,    \* the dependency graph on disk, the file and --depth
  impactOut,   \* << >>, or the buckets the command printed
  \* --- the call graph commands: call-chain (SpecChain), calls and dead-code
  \* (SpecCalls)
  chainIn,     \* the indexed symbols in index order, and --depth
  chainOut,    \* << >>, or what the command printed
  \* --- /reload as it runs, await by await (SpecReload)
  reloads,     \* handleReload calls that have not returned
  answered,    \* the /reload requests a response was sent for
  serverUp,    \* the server process is running
  \* --- IndexWatcher.start() called again (SpecStart)
  leaked,      \* FSWatchers still open that this.watcher no longer refers to
  registered   \* registrations of the SIGINT / SIGTERM handlers of start()

\* ----------------------------------------------------------------- indexer
calculateHash(content) == "h-" \o content

\* Every path of the model ends in .ts.
\* join(projectRoot, relativePath), written relative to projectRoot: path.join
\* drops a leading "./".  Spelled that way, the files of the model are Dotted.
Dotted == [x \in {"./a.ts", "./b.ts"} |-> IF x = "./a.ts" THEN "a.ts" ELSE "b.ts"]
join(relativePath) ==
  IF relativePath \in DOMAIN Dotted THEN Dotted[relativePath] ELSE relativePath

\* extname(filePath) is looked up in a table; every file of the model ends in .ts
detectLanguage(filePath) == IF join(filePath) \in PathSet THEN "typescript" ELSE "unknown"

\* indexFile: <<>> for null, else <<FileInfo>>.
indexFile(tr, relativePath, t) ==
  LET fullPath == join(relativePath) IN
  IF fullPath \notin DOMAIN tr \/ tr[fullPath] = Absent
  THEN << >>
  ELSE IF tr[fullPath] \in ParseThrows
  THEN << >>
  ELSE << [path |-> relativePath,
           language |-> detectLanguage(relativePath),
           hash |-> calculateHash(tr[fullPath]),
           lastIndexedAt |-> t,
           imports |-> ParseResult[tr[fullPath]].imports,
           symbols |-> ParseResult[tr[fullPath]].symbols] >>

discoverFiles(tr) == SelectSeq(Paths, LAMBDA p : tr[p] # Absent)

\* index.files is a JS object: keys keep insertion order, assigning to an
\* existing key keeps its place.
FileKeys(files) == {files[i].path : i \in 1..Len(files)}
FileAt(files, p) == files[CHOOSE i \in 1..Len(files) : files[i].path = p]
SetFile(files, p, info) ==
  IF p \in FileKeys(files)
  THEN [i \in 1..Len(files) |-> IF files[i].path = p THEN info ELSE files[i]]
  ELSE Append(files, info)
DeleteFile(files, p) == SelectSeq(files, LAMBDA f : f.path # p)

RECURSIVE updateSymbol(_, _, _, _)
updateSymbol(symbolIndex, path, symbols, parentPath) ==
  IF symbols = << >> THEN symbolIndex
  ELSE LET symbol == Head(symbols)
           symbolPath == IF parentPath # "" THEN parentPath \o "." \o symbol.name
                         ELSE symbol.name
           own == Put(symbolIndex, symbolPath, path \o ":" \o ToString(symbol.line))
           withChildren == updateSymbol(own, path, symbol.children, symbolPath)
       IN updateSymbol(withChildren, path, Tail(symbols), parentPath)

updateSymbolIndex(symbolIndex, fileInfo) ==
  updateSymbol(symbolIndex, fileInfo.path, fileInfo.symbols, "")

RECURSIVE rebuildSymbolIndex(_, _)
rebuildSymbolIndex(symbolIndex, files) ==
  IF files = << >> THEN symbolIndex
  ELSE rebuildSymbolIndex(updateSymbolIndex(symbolIndex, Head(files)), Tail(files))

\* resolveImport: "" for null.  All files of the model sit in projectRoot.
Candidates(base) ==
  << base \o ".ts", base \o ".tsx", base \o ".js", base \o ".jsx",
     base \o "/index.ts", base \o "/index.tsx", base \o "/index.js", base \o "/index.jsx" >>
existsSync(tr, p) == p \in DOMAIN tr /\ tr[p] # Absent
resolveImport(tr, module, fromFile) ==
  IF module \notin DOMAIN RelativeBase THEN ""
  ELSE LET cands == Candidates(RelativeBase[module])
           hits == {i \in 1..Len(cands) : existsSync(tr, cands[i])}
       IN IF hits = {} THEN ""
          ELSE cands[CHOOSE i \in hits : \A j \in hits : i <= j]

\* One import of one file: the body of fileInfo.imports.forEach
addImport(tr, files, dg, filePath, module) ==
  LET resolvedPath == resolveImport(tr, module, filePath) IN
  IF resolvedPath # "" /\ resolvedPath \in FileKeys(files)
  THEN LET dg1 == [dg EXCEPT ![filePath].imports = Append(@, resolvedPath)]
       IN [dg1 EXCEPT ![resolvedPath].importedBy = Append(@, filePath)]
  ELSE [dg EXCEPT ![filePath].imports = Append(@, module)]

RECURSIVE addImports(_, _, _, _, _)
addImports(tr, files, dg, filePath, imports) ==
  IF imports = << >> THEN dg
  ELSE addImports(tr, files, addImport(tr, files, dg, filePath, Head(imports).module),
                  filePath, Tail(imports))

RECURSIVE buildRelationships(_, _, _, _)
buildRelationships(tr, files, dg, rest) ==
  IF rest = << >> THEN dg
  ELSE buildRelationships(tr, files,
                          addImports(tr, files, dg, Head(rest).path, Head(rest).imports),
                          Tail(rest))

buildDependencyGraph(tr, index) ==
  LET init == [p \in (DOMAIN index.dependencyGraph) \cup FileKeys(index.files) |->
                 IF p \in FileKeys(index.files)
                 THEN [imports |-> << >>, importedBy |-> << >>]
                 ELSE index.dependencyGraph[p]]
  IN [index EXCEPT !.dependencyGraph = buildRelationships(tr, index.files, init, index.files)]

\* loadIndex: <<>> for null (no file, or a file JSON.parse rejects)
loadIndex(ds, d) == IF ds = "ok" THEN << d >> ELSE << >>

RECURSIVE indexAll(_, _, _, _)
indexAll(tr, index, paths, t) ==
  IF paths = << >> THEN index
  ELSE LET fileInfo == indexFile(tr, Head(paths), t)
           next == IF fileInfo # << >>
                   THEN [index EXCEPT
                           !.files = SetFile(@, Head(paths), fileInfo[1]),
                           !.symbolIndex = updateSymbolIndex(@, fileInfo[1])]
                   ELSE index
       IN indexAll(tr, next, Tail(paths), t)

\* indexProject that stamps createdAt afresh instead of taking it from the
\* existing index
indexDiscovered_freshCreatedAt(tr, files, ds, d, t) ==
  LET index == [createdAt |-> t, updatedAt |-> t, files |-> << >>,
                symbolIndex |-> EmptyMap, dependencyGraph |-> EmptyMap]
  IN buildDependencyGraph(tr, indexAll(tr, index, files, t))

\* indexProject from line 39 on, given the list discoverFiles resolved to
indexDiscovered(tr, files, ds, d, t) ==
  LET existingIndex == loadIndex(ds, d)
      index == [createdAt |-> IF existingIndex # << >> THEN existingIndex[1].createdAt ELSE t,
                updatedAt |-> t,
                files |-> << >>,
                symbolIndex |-> EmptyMap,
                dependencyGraph |-> EmptyMap]
  IN buildDependencyGraph(tr, indexAll(tr, index, files, t))

indexProject(tr, ds, d, t) == indexDiscovered(tr, discoverFiles(tr), ds, d, t)

\* The changed-files loop of updateIndex: <<files, updated>>
RECURSIVE updateFiles(_, _, _, _, _)
updateFiles(tr, files, changedFiles, t, updated) ==
  IF changedFiles = << >> THEN << files, updated >>
  ELSE LET fileInfo == indexFile(tr, Head(changedFiles), t)
       IN IF fileInfo # << >>
          THEN updateFiles(tr, SetFile(files, Head(changedFiles), fileInfo[1]),
                           Tail(changedFiles), t, updated + 1)
          ELSE updateFiles(tr, files, Tail(changedFiles), t, updated)

\* updateIndex that re-indexes every file of the tree, not only changedFiles
updateLoaded_rebuildAll(tr, index, changedFiles, t) ==
  LET res == updateFiles(tr, index.files, changedFiles \o discoverFiles(tr), t, 0)
      index1 == [index EXCEPT !.files = res[1]]
  IN IF res[2] > 0
     THEN [buildDependencyGraph(tr,
             [index1 EXCEPT !.symbolIndex = rebuildSymbolIndex(EmptyMap, index1.files)])
           EXCEPT !.updatedAt = t]
     ELSE index1

\* updateIndex from line 312 on, given the index line 310 produced
updateLoaded(tr, index, changedFiles, t) ==
  LET res == updateFiles(tr, index.files, changedFiles, t, 0)
      index1 == [index EXCEPT !.files = res[1]]
  IN IF res[2] > 0
     THEN [buildDependencyGraph(tr,
             [index1 EXCEPT !.symbolIndex = rebuildSymbolIndex(EmptyMap, index1.files)])
           EXCEPT !.updatedAt = t]
     ELSE index1

updateIndex(tr, ds, d, changedFiles, t) ==
  LET loaded == loadIndex(ds, d)
      index == IF loaded # << >> THEN loaded[1] ELSE indexProject(tr, ds, d, t)
  IN updateLoaded(tr, index, changedFiles, t)

\* The first occurrence of filePath is spliced out of importsList.
SpliceFirst(list, x) ==
  IF x \notin SeqToSet(list) THEN list
  ELSE LET k == CHOOSE i \in 1..Len(list) : list[i] = x /\ \A j \in 1..(i-1) : list[j] # x
       IN SubSeq(list, 1, k - 1) \o SubSeq(list, k + 1, Len(list))

\* removeFromIndex without the rebuild of symbolIndex (lines 179-183 left out)
removeLoaded_staleSymbols(index, filePath, t) ==
  LET files1 == DeleteFile(index.files, filePath)
      dg == index.dependencyGraph
  IN [index EXCEPT !.files = files1,
                   !.dependencyGraph = [p \in (DOMAIN dg) \ {filePath} |-> dg[p]],
                   !.updatedAt = t]

\* removeFromIndex on a loaded index that has files[filePath]
removeLoaded(index, filePath, t) ==
  LET files1 == DeleteFile(index.files, filePath)
      dg == index.dependencyGraph
      dg1 == IF filePath \in DOMAIN dg
             THEN LET importers == SeqToSet(dg[filePath].importedBy)
                      cleaned == [p \in DOMAIN dg |->
                                    IF p \in importers
                                    THEN [dg[p] EXCEPT !.imports = SpliceFirst(@, filePath)]
                                    ELSE dg[p]]
                  IN [p \in (DOMAIN dg) \ {filePath} |-> cleaned[p]]
             ELSE dg
  IN [index EXCEPT !.files = files1,
                   !.dependencyGraph = dg1,
                   !.symbolIndex = rebuildSymbolIndex(EmptyMap, files1),
                   !.updatedAt = t]

\* ------------------------------------------------------------ Spec: actions
NoIndex == [createdAt |-> 0, updatedAt |-> 0, files |-> << >>,
            symbolIndex |-> EmptyMap, dependencyGraph |-> EmptyMap]

\* What saveIndex can leave behind.  writeFileSync(indexPath, json) opens the
\* file with truncation and then writes: "ok" is the new index in place;
\* "torn" is a write that failed after the open, leaving a cut-short file;
\* "unwritten" is a failure before the open (mkdirSync or the open itself
\* throws), leaving the file as it was.
SaveOutcomes == {"ok", "torn", "unwritten"}

saveIndex(index, outcome) ==
  /\ diskState' = IF outcome = "unwritten" THEN diskState ELSE outcome
  /\ disk' = CASE outcome = "ok" -> index
              [] outcome = "torn" -> NoIndex
              [] OTHER -> disk

Record(op, changed, outcome) == [op |-> op, changed |-> changed, outcome |-> outcome]

ChangedLists ==
  {<<p>> : p \in PathSet} \cup {<<p, q>> : p \in PathSet, q \in PathSet}

Undefined == -1

wvars == <<started, isRunning, watcher, fsw, readyPending, pendingFiles, timeoutId,
           slices, stops, fsQueue, fsChanges, signals, quiet, burst, owed, exited>>

svars == <<fsFile, writer, seen, saves>>

evars == <<instance, made, got>>
rvars == <<stateCache, cacheFile, response, memo, requests>>
pvars == <<impactIn, impactOut>>
cvars == <<chainIn, chainOut>>
lvars == <<reloads, answered, serverUp>>
tvars == <<leaked, registered>>
xvars == <<evars, rvars, pvars, cvars, lvars, tvars>>

\* PROJECT_INDEX.json and PROJECT_INDEX.vectors.jsonl
Targets == {"index", "cache"}
NoFile == [doc |-> 0, have |-> 0, size |-> 0]

FilesIdle ==
  /\ fsFile = [t \in Targets |-> NoFile]
  /\ writer = [t \in Targets |-> [pc |-> "idle", prev |-> NoFile]]
  /\ seen = [t \in Targets |-> NoFile]
  /\ saves = [t \in Targets |-> 0]

\* No watch process.
WatcherIdle ==
  /\ started = "no" /\ isRunning = FALSE /\ watcher = "null" /\ fsw = "none"
  /\ readyPending = FALSE /\ pendingFiles = << >> /\ timeoutId = Undefined
  /\ slices = << >> /\ stops = << >> /\ fsQueue = << >> /\ fsChanges = 0
  /\ signals = 0 /\ quiet = 0 /\ burst = {} /\ owed = {} /\ exited = FALSE
  /\ leaked = 0 /\ registered = 0

\* No embedder, no resident server, no query command run.
EmbedderIdle == instance = << >> /\ made = 0 /\ got = << >>
ServerIdle ==
  /\ stateCache = << >> /\ cacheFile = << >> /\ response = << >>
  /\ memo = {} /\ requests = 0
  /\ reloads = << >> /\ answered = {} /\ serverUp = TRUE
ImpactIdle == impactIn = << >> /\ impactOut = << >>
ChainIdle == chainIn = << >> /\ chainOut = << >>
QueriesIdle == EmbedderIdle /\ ServerIdle /\ ImpactIdle /\ ChainIdle

Init ==
  /\ WatcherIdle /\ FilesIdle /\ QueriesIdle
  /\ tree = [p \in PathSet |-> Absent]
  /\ now = 0
  /\ diskState = "none"
  /\ disk = NoIndex
  /\ last = Record("init", << >>, "ok")

\* An editor writes or deletes a source file.
TreeWrite ==
  \E p \in PathSet, c \in Contents :
    /\ tree[p] # c
    /\ tree' = [tree EXCEPT ![p] = c]
    /\ UNCHANGED <<now, diskState, disk, last>> /\ UNCHANGED <<wvars, svars, xvars>>

TreeDelete ==
  \E p \in PathSet :
    /\ tree[p] # Absent
    /\ tree' = [tree EXCEPT ![p] = Absent]
    /\ UNCHANGED <<now, diskState, disk, last>> /\ UNCHANGED <<wvars, svars, xvars>>

Tick ==
  /\ now < MaxClock
  /\ now' = now + 1
  /\ UNCHANGED <<tree, diskState, disk, last>> /\ UNCHANGED <<wvars, svars, xvars>>

\* project-index index
CmdIndex ==
  \E outcome \in SaveOutcomes :
    /\ saveIndex(indexProject(tree, diskState, disk, now), outcome)
    /\ last' = Record("index", << >>, outcome)
    /\ UNCHANGED <<tree, now>> /\ UNCHANGED <<wvars, svars, xvars>>

\* project-index update <files...>, and a watcher slice
CmdUpdate ==
  \E changedFiles \in ChangedLists, outcome \in SaveOutcomes :
    /\ saveIndex(updateIndex(tree, diskState, disk, changedFiles, now), outcome)
    /\ last' = Record("update", changedFiles, outcome)
    /\ UNCHANGED <<tree, now>> /\ UNCHANGED <<wvars, svars, xvars>>

\* The watcher's unlink handler: removeFromIndex(filePath)
WatcherRemove ==
  \E filePath \in PathSet, outcome \in SaveOutcomes :
    /\ loadIndex(diskState, disk) # << >>
    /\ filePath \in FileKeys(disk.files)
    /\ saveIndex(removeLoaded(disk, filePath, now), outcome)
    /\ last' = Record("remove", <<filePath>>, outcome)
    /\ UNCHANGED <<tree, now>> /\ UNCHANGED <<wvars, svars, xvars>>

ivars == <<tree, now, diskState, disk, last>>
vars == <<tree, now, diskState, disk, last,
          started, isRunning, watcher, fsw, readyPending, pendingFiles, timeoutId,
          slices, stops, fsQueue, fsChanges, signals, quiet, burst, owed, exited,
          fsFile, writer, seen, saves,
          instance, made, got, stateCache, cacheFile, response, memo, requests,
          impactIn, impactOut, chainIn, chainOut,
          reloads, answered, serverUp, leaked, registered>>

Next == TreeWrite \/ TreeDelete \/ Tick \/ CmdIndex \/ CmdUpdate \/ WatcherRemove

Spec == Init /\ [][Next]_vars


\* ------------------------------------------------------- properties of Spec
\* A step of Spec that runs an indexer operation (the tree and the clock are
\* left alone by exactly those steps).
OpStep == tree' = tree /\ now' = now

Imports(index, a) == SeqToSet(index.dependencyGraph[a].imports)
ImportedBy(index, b) == SeqToSet(index.dependencyGraph[b].importedBy)
GraphKeys(index) == DOMAIN index.dependencyGraph

DepGraphSymmetric(index) ==
  \A a \in PathSet, b \in PathSet :
    (a \in GraphKeys(index) /\ b \in Imports(index, a))
      <=> (b \in GraphKeys(index) /\ a \in ImportedBy(index, b))

\* C1: in every persisted index the dependency graph is symmetric: b is a
\* resolved path in dependencyGraph[a].imports iff a is in
\* dependencyGraph[b].importedBy.
C1_GraphSymmetric == diskState = "ok" => DepGraphSymmetric(disk)

\* The lines at which the model's files declare symbols.
Lines == {1, 2, 4}
PointsInto(value, p) == \E l \in Lines : value = p \o ":" \o ToString(l)

NoTraceOf(index, p) ==
  /\ p \notin FileKeys(index.files)
  /\ p \notin GraphKeys(index)
  /\ \A q \in GraphKeys(index) : p \notin ImportedBy(index, q)
  /\ \A k \in DOMAIN index.symbolIndex : ~PointsInto(index.symbolIndex[k], p)

\* C2: an incremental update whose changed set contains an indexed path p
\* whose file is gone from disk leaves an index with no files[p], no
\* dependencyGraph[p], no importedBy entry p and no symbolIndex value in p.
C2_DeletedPathDropped ==
  [][(OpStep /\ last'.op = "update" /\ last'.outcome = "ok" /\ diskState = "ok")
       => \A p \in SeqToSet(last'.changed) :
            (p \in FileKeys(disk.files) /\ tree[p] = Absent) => NoTraceOf(disk', p)]_vars

\* All symbol nodes under a list of symbols, as <<qualified name, line>>.
RECURSIVE QualifiedNodes(_, _)
QualifiedNodes(symbols, ancestors) ==
  IF symbols = << >> THEN {}
  ELSE LET s == Head(symbols)
           q == IF ancestors = "" THEN s.name ELSE ancestors \o "." \o s.name
       IN {<<q, s.line>>} \cup QualifiedNodes(s.children, q)
            \cup QualifiedNodes(Tail(symbols), ancestors)

SymbolIndexSound(index) ==
  \A key \in DOMAIN index.symbolIndex :
    \E p \in FileKeys(index.files) :
      \E n \in QualifiedNodes(FileAt(index.files, p).symbols, "") :
        n[1] = key /\ index.symbolIndex[key] = p \o ":" \o ToString(n[2])

\* C8: every symbolIndex entry key -> "p:l" of a persisted index names a key
\* p of files and a symbol node of files[p] at line l whose dot-joined
\* qualified name is key.
C8_SymbolIndexSound == diskState = "ok" => SymbolIndexSound(disk)

\* C8 witness: a removal has left an index that still holds a nested symbol.
C8_Witness ==
  /\ diskState = "ok" /\ last.op = "remove" /\ last.outcome = "ok"
  /\ "C.m" \in DOMAIN disk.symbolIndex

\* C9: every rebuild, incremental update and removal that replaces a
\* persisted index persists the createdAt that index had.
C9_CreatedAtPreserved ==
  [][(OpStep /\ diskState = "ok" /\ diskState' = "ok")
       => disk'.createdAt = disk.createdAt]_vars

\* C9 witness: a full rebuild ran later than the first build and the index
\* it persisted carries the earlier createdAt.
C9_Witness ==
  /\ diskState = "ok" /\ last.op = "index" /\ last.outcome = "ok"
  /\ disk.createdAt < disk.updatedAt

\* C10: every save that replaces a persisted index, made when the clock has
\* moved past that index's updatedAt, persists a strictly later updatedAt.
C10_UpdatedAtAdvances ==
  [][(OpStep /\ last'.outcome = "ok" /\ diskState = "ok" /\ diskState' = "ok"
        /\ now > disk.updatedAt)
       => disk'.updatedAt > disk.updatedAt]_vars


\* ------------------------------------------------------------------ watcher
\* The IndexWatcher runs on the Node event loop.  A callback (filesystem
\* event, timer, signal, completion of real I/O) runs only when no promise
\* continuation is runnable; `await` of an async function that does no real
\* I/O (indexFile, parser.parse) resumes as a continuation within the same
\* turn; `await` of fast-glob (discoverFiles) and of chokidar's close() gives
\* the loop back.

SetAdd(seq, x) == IF x \in SeqToSet(seq) THEN seq ELSE Append(seq, x)
SetDelete(seq, x) == SelectSeq(seq, LAMBDA y : y # x)
RECURSIVE SetAddAll(_, _)
SetAddAll(seq, xs) == IF xs = << >> THEN seq ELSE SetAddAll(SetAdd(seq, Head(xs)), Tail(xs))
RemoveAt(seq, i) == SubSeq(seq, 1, i - 1) \o SubSeq(seq, i + 1, Len(seq))

\* debounce: debouncedFunction clears the timeout and sets a new one;
\* the result is the new timeoutId.
debouncedFunction(oldTimeoutId) == WaitTicks

\* The fields the synchronous parts of stop / processPendingUpdates work on.
Watcher == [isRunning |-> isRunning, watcher |-> watcher, pendingFiles |-> pendingFiles,
            slices |-> slices, stops |-> stops]

SliceIds(k) == {k.slices[i].id : i \in 1..Len(k.slices)}
FreshId(k) ==
  LET used == SliceIds(k) \cup {k.stops[i].slice : i \in 1..Len(k.stops)}
  IN CHOOSE n \in 1..(Cardinality(used) + 1) : n \notin used /\ \A m \in 1..(n-1) : m \in used

\* processPendingUpdates that clears the pending set before it copies it
processPendingUpdates_clearsFirst(k, ds, d) ==
  IF k.pendingFiles = << >> THEN k
  ELSE LET loaded == loadIndex(ds, d)
           slice == [id |-> FreshId(k),
                     filesToUpdate |-> << >>,
                     at |-> IF loaded # << >> THEN "indexFile" ELSE "discoverFiles",
                     viaProject |-> loaded = << >>,
                     discovered |-> << >>,
                     index |-> IF loaded # << >> THEN loaded[1] ELSE NoIndex]
       IN [k EXCEPT !.pendingFiles = << >>, !.slices = Append(@, slice)]

\* processPendingUpdates up to its first suspension: the pending set is taken
\* and cleared and updateIndex has called loadIndex.  With an index loaded the
\* call goes on at `await this.indexFile`, else at `await this.discoverFiles`.
processPendingUpdates(k, ds, d) ==
  IF k.pendingFiles = << >> THEN k
  ELSE LET loaded == loadIndex(ds, d)
           slice == [id |-> FreshId(k),
                     filesToUpdate |-> k.pendingFiles,
                     at |-> IF loaded # << >> THEN "indexFile" ELSE "discoverFiles",
                     viaProject |-> loaded = << >>,
                     discovered |-> << >>,
                     index |-> IF loaded # << >> THEN loaded[1] ELSE NoIndex]
       IN [k EXCEPT !.pendingFiles = << >>, !.slices = Append(@, slice)]

\* stop() up to its first suspension.  exits: the caller is the daemon's
\* SIGINT handler, which calls process.exit(0) once stop() has returned.
stop(k, ds, d, exits) ==
  IF ~k.isRunning \/ k.watcher = "null"
  THEN IF exits
       THEN [k EXCEPT !.stops = Append(@, [at |-> "returned", slice |-> 0, exits |-> TRUE])]
       ELSE k
  ELSE IF k.pendingFiles # << >>
       THEN LET k1 == processPendingUpdates(k, ds, d)
            IN [k1 EXCEPT !.stops = Append(@, [at |-> "processPendingUpdates",
                                               slice |-> k1.slices[Len(k1.slices)].id,
                                               exits |-> exits])]
       ELSE [k EXCEPT !.stops = Append(@, [at |-> "close", slice |-> 0, exits |-> exits])]

SetWatcher(k) ==
  /\ isRunning' = k.isRunning
  /\ watcher' = k.watcher
  /\ pendingFiles' = k.pendingFiles
  /\ slices' = k.slices
  /\ stops' = k.stops

\* A promise continuation is runnable.
MicroRunnable ==
  \/ \E i \in 1..Len(slices) : slices[i].at = "indexFile"
  \/ \E j \in 1..Len(stops) :
       \/ stops[j].at = "returned"
       \/ stops[j].at = "processPendingUpdates" /\ stops[j].slice \notin SliceIds(Watcher)
LoopIdle == ~exited /\ ~MicroRunnable

InitWatcher ==
  /\ WatcherIdle /\ FilesIdle /\ QueriesIdle
  /\ tree \in {[p \in PathSet |-> Absent], [p \in PathSet |-> IF p = "a.ts" THEN "c1" ELSE "c2"]}
  /\ now = 0
  /\ diskState = "none"
  /\ disk = NoIndex
  /\ last = Record("init", << >>, "ok")

\* project-index watch [--daemon]: create the index if there is no index
\* file, then watcher.start(), then (daemon) register the SIGINT handler.
WatchCmd ==
  \E mode \in {"plain", "daemon"}, outcome \in SaveOutcomes :
    /\ started = "no"
    /\ started' = mode
    /\ IF diskState = "none"
       THEN saveIndex(indexProject(tree, diskState, disk, now), outcome)
       ELSE outcome = "ok" /\ UNCHANGED <<diskState, disk>>
    /\ IF diskState = "none" /\ outcome # "ok"
       THEN exited' = TRUE /\ UNCHANGED <<watcher, fsw, readyPending, registered>>
       ELSE /\ watcher' = "set" /\ fsw' = "open" /\ readyPending' = TRUE
            /\ registered' = registered + 1
            /\ UNCHANGED exited
    /\ last' = Record("watch", << >>, outcome)
    /\ UNCHANGED <<tree, now, isRunning, pendingFiles, timeoutId, slices, stops,
                   fsQueue, fsChanges, signals, owed, quiet, burst, svars,
                   evars, rvars, pvars, cvars, lvars, leaked>>

\* chokidar emits 'ready'
Ready ==
  /\ LoopIdle /\ readyPending /\ fsw = "open"
  /\ isRunning' = TRUE
  /\ readyPending' = FALSE
  /\ UNCHANGED <<ivars, started, watcher, fsw, pendingFiles, timeoutId, slices, stops,
                 fsQueue, fsChanges, signals, owed, quiet, burst, exited, svars, xvars>>

\* An editor changes the tree; an open FSWatcher will report it.
EditorChange ==
  \E p \in PathSet, c \in Contents \cup {Absent} :
    /\ ~exited /\ started # "no" /\ fsChanges < MaxFsChanges
    /\ tree[p] # c
    /\ tree' = [tree EXCEPT ![p] = c]
    /\ fsChanges' = fsChanges + 1
    /\ fsQueue' = IF fsw = "open"
                  THEN Append(fsQueue, [event |-> IF c = Absent THEN "unlink"
                                                  ELSE IF tree[p] = Absent THEN "add"
                                                  ELSE "change",
                                        path |-> p])
                  ELSE fsQueue
    /\ UNCHANGED <<now, diskState, disk, last, started, isRunning, watcher, fsw,
                   readyPending, pendingFiles, timeoutId, slices, stops, signals,
                   owed, quiet, burst, exited, svars, xvars>>

\* on('add') / on('change'): queueUpdate
OnAddOrChange ==
  /\ LoopIdle /\ fsw = "open" /\ fsQueue # << >>
  /\ Head(fsQueue).event \in {"add", "change"}
  /\ fsQueue' = Tail(fsQueue)
  /\ pendingFiles' = SetAdd(pendingFiles, Head(fsQueue).path)
  /\ timeoutId' = debouncedFunction(timeoutId)
  /\ quiet' = 0
  /\ burst' = (IF quiet = WaitTicks THEN {} ELSE burst) \cup {Head(fsQueue).path}
  /\ last' = Record(Head(fsQueue).event, <<Head(fsQueue).path>>, "ok")
  /\ UNCHANGED <<tree, now, diskState, disk, started, isRunning, watcher, fsw,
                 readyPending, slices, stops, fsChanges, signals, owed, exited, svars, xvars>>

\* on('unlink'): queueDelete, which runs removeFromIndex at once
OnUnlink ==
  \E outcome \in SaveOutcomes :
    /\ LoopIdle /\ fsw = "open" /\ fsQueue # << >>
    /\ Head(fsQueue).event = "unlink"
    /\ fsQueue' = Tail(fsQueue)
    /\ pendingFiles' = SetDelete(pendingFiles, Head(fsQueue).path)
    /\ IF loadIndex(diskState, disk) # << >> /\ Head(fsQueue).path \in FileKeys(disk.files)
       THEN saveIndex(removeLoaded(disk, Head(fsQueue).path, now), outcome)
       ELSE outcome = "ok" /\ UNCHANGED <<diskState, disk>>
    /\ quiet' = 0
    /\ burst' = (IF quiet = WaitTicks THEN {} ELSE burst) \cup {Head(fsQueue).path}
    /\ last' = Record("unlink", <<Head(fsQueue).path>>, outcome)
    /\ owed' = owed \ {Head(fsQueue).path}
    /\ UNCHANGED <<tree, now, started, isRunning, watcher, fsw, readyPending, timeoutId,
                   slices, stops, fsChanges, signals, exited, svars, xvars>>

\* One tick of time passes; a timeout that is due runs before more time passes.
Elapse ==
  /\ LoopIdle /\ started # "no"
  /\ timeoutId # 0
  /\ timeoutId > 0 \/ quiet < WaitTicks
  /\ timeoutId' = IF timeoutId > 0 THEN timeoutId - 1 ELSE timeoutId
  /\ quiet' = IF quiet < WaitTicks THEN quiet + 1 ELSE quiet
  /\ UNCHANGED <<ivars, started, isRunning, watcher, fsw, readyPending, pendingFiles,
                 slices, stops, fsQueue, fsChanges, signals, owed, burst, exited, svars, xvars>>

\* debounce's `later`: timeoutId = undefined; func(...args)
Later ==
  /\ LoopIdle /\ timeoutId = 0
  /\ timeoutId' = Undefined
  /\ SetWatcher(processPendingUpdates(Watcher, diskState, disk))
  /\ UNCHANGED <<ivars, started, fsw, readyPending, fsQueue, fsChanges, signals, owed,
                 quiet, burst, exited, svars, xvars>>

\* fast-glob resolves: indexProject goes on from line 39 within this turn.
DiscoverFilesDone ==
  \E i \in 1..Len(slices) :
    /\ LoopIdle /\ slices[i].at = "discoverFiles"
    /\ slices' = [slices EXCEPT ![i].at = "indexFile", ![i].discovered = discoverFiles(tree)]
    /\ UNCHANGED <<ivars, started, isRunning, watcher, fsw, readyPending, pendingFiles,
                   timeoutId, stops, fsQueue, fsChanges, signals, owed, quiet, burst, exited, svars, xvars>>

\* The rest of a slice: the files are indexed, the index is rebuilt and
\* saved; on a failure the catch block re-queues the slice's paths.
SliceFinish ==
  \E i \in 1..Len(slices), outcome \in SaveOutcomes :
    LET slice == slices[i]
        index == IF slice.viaProject
                 THEN indexDiscovered(tree, slice.discovered, diskState, disk, now)
                 ELSE slice.index
    IN /\ ~exited /\ slice.at = "indexFile"
       /\ saveIndex(updateLoaded(tree, index, slice.filesToUpdate, now), outcome)
       /\ pendingFiles' = IF outcome = "ok" THEN pendingFiles
                          ELSE SetAddAll(pendingFiles, slice.filesToUpdate)
       /\ slices' = RemoveAt(slices, i)
       /\ last' = Record("slice", slice.filesToUpdate, outcome)
       /\ owed' = IF outcome = "ok" THEN owed \ SeqToSet(slice.filesToUpdate) ELSE owed
       /\ UNCHANGED <<tree, now, started, isRunning, watcher, fsw, readyPending, timeoutId,
                      stops, fsQueue, fsChanges, signals, quiet, burst, exited, svars, xvars>>

\* stop() after `await this.processPendingUpdates()`: this.watcher.close() is
\* called; if another stop() has set this.watcher to null meanwhile the call
\* throws, stop() rejects and nobody handles the rejection.
StopAfterSlice ==
  \E j \in 1..Len(stops) :
    /\ ~exited /\ stops[j].at = "processPendingUpdates"
    /\ stops[j].slice \notin SliceIds(Watcher)
    /\ IF watcher = "null"
       THEN /\ stops' = RemoveAt(stops, j)
            /\ exited' \in BOOLEAN
       ELSE /\ stops' = [stops EXCEPT ![j].at = "close", ![j].slice = 0]
            /\ UNCHANGED exited
    /\ UNCHANGED <<ivars, started, isRunning, watcher, fsw, readyPending, pendingFiles,
                   timeoutId, slices, fsQueue, fsChanges, signals, owed, quiet, burst, svars, xvars>>

\* stop() after `await this.watcher.close()`
StopAfterClose ==
  \E j \in 1..Len(stops) :
    /\ ~exited /\ stops[j].at = "close"
    /\ fsw' = "closed"
    /\ fsQueue' = << >>
    /\ watcher' = "null"
    /\ isRunning' = FALSE
    /\ stops' = IF stops[j].exits THEN [stops EXCEPT ![j].at = "returned"]
                ELSE RemoveAt(stops, j)
    /\ UNCHANGED <<ivars, started, readyPending, pendingFiles, timeoutId, slices,
                   fsChanges, signals, owed, quiet, burst, exited, svars, xvars>>

\* The daemon's SIGINT handler after `await watcher.stop()`: process.exit(0)
HandlerExit ==
  \E j \in 1..Len(stops) :
    /\ ~exited /\ stops[j].at = "returned"
    /\ exited' = TRUE
    /\ stops' = RemoveAt(stops, j)
    /\ UNCHANGED <<ivars, started, isRunning, watcher, fsw, readyPending, pendingFiles,
                   timeoutId, slices, fsQueue, fsChanges, signals, owed, quiet, burst, svars, xvars>>

\* The listeners start() registered, one per call of start(), each calling
\* this.stop().
RECURSIVE stopEach(_, _, _, _)
stopEach(k, ds, d, n) ==
  IF n = 0 THEN k ELSE stopEach(stop(k, ds, d, FALSE), ds, d, n - 1)

\* A shutdown signal: the listeners run in the order they were registered,
\* the watcher's own (start, lines 75-76) before the daemon's (SIGINT only).
Signal ==
  \E sig \in {"SIGINT", "SIGTERM"} :
    LET k1 == stopEach(Watcher, diskState, disk, registered)
        k2 == IF sig = "SIGINT" /\ started = "daemon"
              THEN stop(k1, diskState, disk, TRUE) ELSE k1
    IN /\ LoopIdle /\ fsw # "none" /\ signals < MaxSignals
       /\ signals' = signals + 1
       /\ owed' = owed \cup SeqToSet(pendingFiles)
                     \cup UNION {SeqToSet(slices[i].filesToUpdate) : i \in 1..Len(slices)}
       /\ SetWatcher(k2)
       /\ UNCHANGED <<ivars, started, fsw, readyPending, timeoutId, fsQueue, fsChanges,
                      quiet, burst, exited, svars, xvars>>

NextWatcher ==
  \/ WatchCmd \/ Ready \/ EditorChange \/ OnAddOrChange \/ OnUnlink \/ Elapse \/ Later
  \/ DiscoverFilesDone \/ SliceFinish \/ StopAfterSlice \/ StopAfterClose \/ HandlerExit
  \/ Signal

SpecWatcher == InitWatcher /\ [][NextWatcher]_vars

\* ------------------------------------------------------------- file writes
\* saveIndex (indexer.ts:275) and writeCache (semsearch.ts:68) both call
\* fs.writeFileSync(path, text): the file is opened with flag 'w', which
\* creates it or truncates it to length 0, the text is written, the file is
\* closed.  Other processes (the resident server, CLI queries, the session
\* hook) read the same files whenever they run.
Complete(content) == content.have = content.size

InitSave ==
  /\ WatcherIdle /\ FilesIdle /\ QueriesIdle
  /\ tree = [p \in PathSet |-> Absent]
  /\ now = 0
  /\ diskState = "none"
  /\ disk = NoIndex
  /\ last = Record("init", << >>, "ok")

\* mkdirSync or the open fails: writeFileSync throws with the file untouched
WriteRefused ==
  \E t \in Targets :
    /\ writer[t].pc # "writing" /\ saves[t] < MaxSaves
    /\ saves' = [saves EXCEPT ![t] = @ + 1]
    /\ writer' = [writer EXCEPT ![t] = [pc |-> "threw", prev |-> fsFile[t]]]
    /\ UNCHANGED <<ivars, wvars, xvars, fsFile, seen>>

\* open(path, 'w'): the file is truncated
WriteOpen ==
  \E t \in Targets, size \in 1..MaxChunks :
    /\ writer[t].pc # "writing" /\ saves[t] < MaxSaves
    /\ saves' = [saves EXCEPT ![t] = @ + 1]
    /\ writer' = [writer EXCEPT ![t] = [pc |-> "writing", prev |-> fsFile[t]]]
    /\ fsFile' = [fsFile EXCEPT ![t] = [doc |-> saves[t] + 1, have |-> 0, size |-> size]]
    /\ UNCHANGED <<ivars, wvars, xvars, seen>>

\* one write(2) of the text
WriteChunk ==
  \E t \in Targets :
    /\ writer[t].pc = "writing" /\ fsFile[t].have < fsFile[t].size
    /\ fsFile' = [fsFile EXCEPT ![t].have = @ + 1]
    /\ UNCHANGED <<ivars, wvars, xvars, writer, seen, saves>>

\* a write fails (disk full, I/O error) or the process is killed
WriteThrows ==
  \E t \in Targets :
    /\ writer[t].pc = "writing" /\ fsFile[t].have < fsFile[t].size
    /\ writer' = [writer EXCEPT ![t].pc = "threw"]
    /\ UNCHANGED <<ivars, wvars, xvars, fsFile, seen, saves>>

\* close: writeFileSync returns
WriteClose ==
  \E t \in Targets :
    /\ writer[t].pc = "writing" /\ fsFile[t].have = fsFile[t].size
    /\ writer' = [writer EXCEPT ![t].pc = "idle"]
    /\ UNCHANGED <<ivars, wvars, xvars, fsFile, seen, saves>>

\* another process reads the file (readFileSync)
ReadFile ==
  \E t \in Targets :
    /\ seen[t] # fsFile[t]
    /\ seen' = [seen EXCEPT ![t] = fsFile[t]]
    /\ UNCHANGED <<ivars, wvars, xvars, fsFile, writer, saves>>

NextSave == WriteRefused \/ WriteOpen \/ WriteChunk \/ WriteThrows \/ WriteClose \/ ReadFile

SpecSave == InitSave /\ [][NextSave]_vars

\* C7: a reader of the index file or of the cache file gets the complete
\* previous content or the complete new content, and after a write that
\* failed the file holds the content it had before that write.
C7_AtomicReplace ==
  \A t \in Targets :
    /\ Complete(seen[t])
    /\ writer[t].pc = "threw" => fsFile[t] = writer[t].prev

\* ------------------------------------------------ properties of SpecWatcher
OnEventStep == fsw' = "open" /\ fsQueue # << >> /\ fsQueue' = Tail(fsQueue)
OnUnlinkStep == OnEventStep /\ Head(fsQueue).event = "unlink"
LaterStep == timeoutId = 0 /\ timeoutId' = Undefined
SliceFailStep == Len(slices') < Len(slices) /\ last'.op = "slice" /\ last'.outcome # "ok"

\* C3: the watcher has at most one index mutation in flight: while a slice
\* is between its loadIndex and its saveIndex no other slice has loaded the
\* index and no unlink removal loads or saves it.
C3_OneMutationAtATime ==
  [][/\ Len(slices') <= 1
     /\ OnUnlinkStep => slices = << >>]_vars

\* C4: no filesystem event by itself writes the index, and the slice of a
\* burst starts only when a full wait has passed since the burst's last event
\* and takes every path of the burst.
C4_BurstInOneSlice ==
  [][/\ OnEventStep => (diskState' = diskState /\ disk' = disk)
     /\ LaterStep => (quiet = WaitTicks /\ burst \subseteq SeqToSet(pendingFiles))]_vars

\* C5: when a slice fails, its paths are pending again and a debounce
\* timeout is set that will process them.
C5_FailedSliceRetried ==
  [][SliceFailStep => (/\ SeqToSet(last'.changed) \subseteq SeqToSet(pendingFiles')
                       /\ timeoutId' # Undefined)]_vars

\* C6: once the watcher is closed or the process has exited after a shutdown
\* signal, every path that was pending or in a slice when the signal arrived
\* has been processed and saved.
C6_DrainedBeforeShutdown == (exited \/ fsw = "closed") => owed = {}

\* ------------------------------------------- full builds and updates (Spec)
\* A full build of tree tr at time t with no index on disk.
FullBuild(tr, t) == indexDiscovered(tr, discoverFiles(tr), "none", NoIndex, t)

\* files without the time each record was made
StripTimes(files) == [i \in 1..Len(files) |-> [files[i] EXCEPT !.lastIndexedAt = 0]]

\* index holds what a full build of tr holds, whenever it was made
Matches(index, tr) ==
  /\ StripTimes(index.files) = StripTimes(FullBuild(tr, 0).files)
  /\ index.symbolIndex = FullBuild(tr, 0).symbolIndex
  /\ index.dependencyGraph = FullBuild(tr, 0).dependencyGraph

IndexStep == OpStep /\ last'.op = "index" /\ last'.outcome = "ok"
UpdateStep == OpStep /\ last'.op = "update" /\ last'.outcome = "ok"

\* C11: a full build of a tree whose previous full build is on disk persists
\* the same files, symbolIndex and dependencyGraph.
C11_RebuildIdentical ==
  [][(/\ IndexStep /\ diskState = "ok"
      /\ \E t0 \in 0..now :
           disk = [FullBuild(tree, t0) EXCEPT !.createdAt = disk.createdAt])
       => (/\ disk'.files = disk.files
           /\ disk'.symbolIndex = disk.symbolIndex
           /\ disk'.dependencyGraph = disk.dependencyGraph)]_vars

\* C19: an incremental update for paths that exist, applied to an index
\* that matched the tree as it was apart from those paths, persists the
\* symbolIndex and dependencyGraph a full build of the tree produces.
C19_UpdateEqualsRebuild ==
  [][(/\ UpdateStep /\ diskState = "ok"
      /\ \A p \in SeqToSet(last'.changed) : tree[p] # Absent
      /\ \E tr0 \in [PathSet -> Contents \cup {Absent}] :
           /\ \A p \in PathSet \ SeqToSet(last'.changed) : tr0[p] = tree[p]
           /\ Matches(disk, tr0))
       => (/\ disk'.symbolIndex = FullBuild(tree, now).symbolIndex
           /\ disk'.dependencyGraph = FullBuild(tree, now).dependencyGraph)]_vars

\* C20: an incremental update leaves the FileRecord of a changed path whose
\* content hash equals the stored hash as it was, lastIndexedAt included.
C20_HashGatesReindex ==
  [][(UpdateStep /\ diskState = "ok")
       => \A p \in SeqToSet(last'.changed) :
            (/\ p \in FileKeys(disk.files) /\ tree[p] # Absent
             /\ calculateHash(tree[p]) = FileAt(disk.files, p).hash)
              => FileAt(disk'.files, p) = FileAt(disk.files, p)]_vars

\* C29: an incremental update for changed set S over an index that loads leaves
\* the FileRecord of every path outside S as it was loaded, and adds or removes
\* no FileRecord of a path outside S.
C29_UpdateFrame ==
  [][(UpdateStep /\ diskState = "ok")
       => \A p \in PathSet \ SeqToSet(last'.changed) :
            /\ (p \in FileKeys(disk'.files)) <=> (p \in FileKeys(disk.files))
            /\ p \in FileKeys(disk.files)
                 => FileAt(disk'.files, p) = FileAt(disk.files, p)]_vars

\* An update was persisted and a file outside S that changed on disk after it
\* was indexed still has its older FileRecord.
C29_Witness ==
  /\ last.op = "update" /\ last.outcome = "ok" /\ diskState = "ok"
  /\ \E p \in PathSet \ SeqToSet(last.changed) :
       /\ p \in FileKeys(disk.files) /\ tree[p] # Absent
       /\ FileAt(disk.files, p).hash # calculateHash(tree[p])
       /\ FileAt(disk.files, p).lastIndexedAt < disk.updatedAt

\* ------------------------------------ builds over files the parser rejects
AllContents == Contents \cup ParseThrows

\* A tree that holds at least one file on which the parser throws.
InitBuild ==
  /\ WatcherIdle /\ FilesIdle /\ QueriesIdle
  /\ tree \in [PathSet -> AllContents \cup {Absent}]
  /\ \E p \in PathSet : tree[p] \in ParseThrows
  /\ now = 0
  /\ diskState = "none"
  /\ disk = NoIndex
  /\ last = Record("init", << >>, "ok")

SpecBuild == InitBuild /\ [][Next]_vars

\* C12: after a full build every file the parser failed on has a FileRecord
\* with its language set and empty imports and symbols.
C12_ParseFailureRetained ==
  (diskState = "ok" /\ last.op = "index" /\ last.outcome = "ok")
    => \A p \in PathSet :
         tree[p] \in ParseThrows
           => /\ p \in FileKeys(disk.files)
              /\ FileAt(disk.files, p).language = "typescript"
              /\ FileAt(disk.files, p).imports = << >>
              /\ FileAt(disk.files, p).symbols = << >>

\* ------------------------------------------------------- embedding provider
MaxMade == 3         \* SpecEmbedder: number of Embedder objects constructed

\* The model argument when the caller leaves it out (undefined, or '').
NoModel == ""
ModelArgs == {NoModel, "Xenova/bge-m3", "intfloat/e5-small-v2"}
\* "none": the profile argument left out
Profiles == {"none", "fast", "quality"}

pickModel(profile, gpuDetected) ==
  IF profile = "quality"
  THEN (IF gpuDetected THEN "Xenova/Qwen3-Embedding-0.6B" ELSE "Xenova/bge-m3")
  ELSE "Xenova/all-MiniLM-L6-v2"

\* new Embedder(model, profile): the n-th object constructed
Embedder(model, profile, gpu, n) ==
  [id |-> n,
   pipe |-> FALSE,
   model |-> IF model # NoModel THEN model
             ELSE pickModel(IF profile = "none" THEN "fast" ELSE profile, gpu)]

\* Embedder.get that never replaces the instance
get_keepsInstance(inst, n, model, profile, gpu) ==
  IF inst = << >> THEN << Embedder(model, profile, gpu, n + 1) >>
  ELSE inst

\* Embedder.get: Embedder.instance after the call (the call returns it)
get(inst, n, model, profile, gpu) ==
  IF inst = << >> THEN << Embedder(model, profile, gpu, n + 1) >>
  ELSE IF model # NoModel /\ inst[1].model # model
  THEN << Embedder(model, profile, gpu, n + 1) >>
  ELSE inst

Made(inst, n) == IF inst = << >> THEN n ELSE IF inst[1].id > n THEN inst[1].id ELSE n

\* Some caller calls Embedder.get(model, profile).
Get ==
  \E model \in ModelArgs, profile \in Profiles, gpu \in BOOLEAN :
    /\ made < MaxMade
    /\ instance' = get(instance, made, model, profile, gpu)
    /\ made' = Made(instance', made)
    /\ got' = << [model |-> model, profile |-> profile,
                  before |-> instance, result |-> instance'[1]] >>
    /\ UNCHANGED <<ivars, wvars, svars, rvars, pvars, cvars, lvars, tvars>>

\* embed() on the instance: the first call loads the pipeline
Embed ==
  /\ instance # << >> /\ ~instance[1].pipe
  /\ instance' = << [instance[1] EXCEPT !.pipe = TRUE] >>
  /\ UNCHANGED <<made, got>>
  /\ UNCHANGED <<ivars, wvars, svars, rvars, pvars, cvars, lvars, tvars>>

InitEmbedder ==
  /\ WatcherIdle /\ FilesIdle /\ QueriesIdle
  /\ tree = [p \in PathSet |-> Absent]
  /\ now = 0
  /\ diskState = "none"
  /\ disk = NoIndex
  /\ last = Record("init", << >>, "ok")

NextEmbedder == Get \/ Embed

SpecEmbedder == InitEmbedder /\ [][NextEmbedder]_vars

\* C18: Embedder.get returns the existing instance itself when called with
\* no model or with the instance's model, constructs a new one when called
\* with a different model, and after get(m) the instance's model is m.
C18_SingletonByModel ==
  got # << >> =>
    LET g == got[1] IN
    /\ instance # << >> /\ instance[1].id = g.result.id
    /\ (g.before # << >> /\ (g.model = NoModel \/ g.model = g.before[1].model))
         => g.result = g.before[1]
    /\ (g.before # << >> /\ g.model # NoModel /\ g.model # g.before[1].model)
         => g.result.id # g.before[1].id
    /\ g.model # NoModel => g.result.model = g.model

\* C18 witness: a call with a model other than the instance's replaced it.
C18_Witness ==
  /\ got # << >> /\ got[1].before # << >>
  /\ got[1].result.id # got[1].before[1].id
  /\ got[1].result.model = got[1].model

\* ----------------------------------------------------------- impact command
MaxDepth == 3        \* SpecImpact, SpecChain: --depth runs 1..MaxDepth
MaxImporters == 2    \* SpecImpact: length of an importedBy list

ImpactFiles == {"w.ts", "x.ts", "y.ts", "z.ts"}

\* The importedBy lists a file can have: distinct other files, in any order.
ImporterLists(f) ==
  {l \in UNION {[1..n -> ImpactFiles \ {f}] : n \in 0..MaxImporters} :
     \A i, j \in 1..Len(l) : i # j => l[i] # l[j]}

NoImpact(analyzed) ==
  [high |-> << >>, medium |-> << >>, low |-> << >>, analyzed |-> analyzed]

\* calculateImpact(filePath, currentDepth), with the `analyzed` set it shares
\* between calls passed in and handed back.
RECURSIVE calculateImpact(_, _, _, _, _)
RECURSIVE impactEach(_, _, _, _, _)
calculateImpact(dg, maxDepth, analyzed, filePath, currentDepth) ==
  IF currentDepth > maxDepth \/ filePath \in analyzed THEN NoImpact(analyzed)
  ELSE IF filePath \notin DOMAIN dg THEN NoImpact(analyzed \cup {filePath})
  ELSE LET by == dg[filePath].importedBy
           own == [high |-> IF currentDepth = 1 THEN by ELSE << >>,
                   medium |-> IF currentDepth = 2 THEN by ELSE << >>,
                   low |-> IF currentDepth > 2 THEN by ELSE << >>,
                   analyzed |-> analyzed \cup {filePath}]
       IN impactEach(dg, maxDepth, own, by, currentDepth)

\* fileDeps.importedBy.forEach(importingFile => ...)
impactEach(dg, maxDepth, acc, rest, currentDepth) ==
  IF rest = << >> THEN acc
  ELSE LET recursive == calculateImpact(dg, maxDepth, acc.analyzed, Head(rest),
                                        currentDepth + 1)
       IN impactEach(dg, maxDepth,
                     [high |-> acc.high \o recursive.high,
                      medium |-> acc.medium \o recursive.medium,
                      low |-> acc.low \o recursive.low,
                      analyzed |-> recursive.analyzed],
                     Tail(rest), currentDepth)

\* [...new Set(list)]
RECURSIVE Dedup(_)
Dedup(list) ==
  IF list = << >> THEN << >>
  ELSE LET front == Dedup(SubSeq(list, 1, Len(list) - 1))
       IN IF list[Len(list)] \in SeqToSet(front) THEN front
          ELSE Append(front, list[Len(list)])

\* The impact command's three lists for <file> with --depth maxDepth.
impact(dg, file, maxDepth) ==
  LET res == calculateImpact(dg, maxDepth, {}, file, 1)
      highImpact == Dedup(res.high)
      mediumImpact == SelectSeq(Dedup(res.medium),
                                LAMBDA f : f \notin SeqToSet(highImpact))
      lowImpact == SelectSeq(Dedup(res.low),
                             LAMBDA f : f \notin SeqToSet(highImpact)
                                        /\ f \notin SeqToSet(mediumImpact))
  IN [high |-> highImpact, medium |-> mediumImpact, low |-> lowImpact]

\* project-index impact <file> --depth <n>
ImpactCmd ==
  \E file \in ImpactFiles :
    /\ impactOut = << >>
    /\ impactOut' = << [file |-> file,
                        impact |-> impact(impactIn[1].dependencyGraph, file,
                                          impactIn[1].depth)] >>
    /\ UNCHANGED <<ivars, wvars, svars, evars, rvars, cvars, impactIn, lvars, tvars>>

InitImpact ==
  /\ WatcherIdle /\ FilesIdle /\ EmbedderIdle /\ ServerIdle /\ ChainIdle
  /\ tree = [p \in PathSet |-> Absent]
  /\ now = 0
  /\ diskState = "none"
  /\ disk = NoIndex
  /\ last = Record("init", << >>, "ok")
  /\ \E w \in ImporterLists("w.ts"), x \in ImporterLists("x.ts"),
        y \in ImporterLists("y.ts"), z \in ImporterLists("z.ts"),
        depth \in 1..MaxDepth :
       impactIn = << [dependencyGraph |->
                        [f \in ImpactFiles |->
                           [importedBy |-> CASE f = "w.ts" -> w [] f = "x.ts" -> x
                                             [] f = "y.ts" -> y [] OTHER -> z]],
                      depth |-> depth] >>
  /\ impactOut = << >>

NextImpact == ImpactCmd

SpecImpact == InitImpact /\ [][NextImpact]_vars

\* Files at exactly k importedBy steps from t by the shortest way.
RECURSIVE AtDistance(_, _, _)
RECURSIVE WithinDistance(_, _, _)
AtDistance(dg, t, k) ==
  IF k = 0 THEN {t}
  ELSE {f \in DOMAIN dg : \E g \in AtDistance(dg, t, k - 1) :
                             f \in SeqToSet(dg[g].importedBy)}
       \ WithinDistance(dg, t, k - 1)
WithinDistance(dg, t, k) ==
  IF k = 0 THEN {t} ELSE AtDistance(dg, t, k) \cup WithinDistance(dg, t, k - 1)

\* C16: every file other than the target sits in the one bucket its shortest
\* distance from the target names (1 high, 2 medium, 3..depth low), and in
\* no bucket when it is farther than depth or not reachable.
C16_BucketByShortestDistance ==
  impactOut # << >> =>
    LET dg == impactIn[1].dependencyGraph
        d == impactIn[1].depth
        t == impactOut[1].file
        out == impactOut[1].impact
        In(list, f) == f \in SeqToSet(list)
    IN \A f \in ImpactFiles \ {t} :
         /\ In(out.high, f) <=> f \in AtDistance(dg, t, 1)
         /\ In(out.medium, f) <=> (d >= 2 /\ f \in AtDistance(dg, t, 2))
         /\ In(out.low, f) <=> \E k \in 3..d : f \in AtDistance(dg, t, k)

\* ------------------------------------------------------- call-chain command
MaxCalls == 2        \* SpecChain: length of a calls list

\* Names that occur in calls lists, in sorted order (extractCalls sorts).
CallNames == <<"a", "b", "c", "m">>

\* The calls lists a symbol can have: sorted, without repeats.
CallLists ==
  {l \in UNION {[1..n -> 1..Len(CallNames)] : n \in 0..MaxCalls} :
     \A i \in 1..(Len(l) - 1) : l[i] < l[i + 1]}
NamesOf(l) == [i \in 1..Len(l) |-> CallNames[l[i]]]

\* A function symbol, and a class symbol with one method.  calls and
\* children are << >> when the property is not there.
FunctionSym(name, calls) ==
  [name |-> name, kind |-> "function", calls |-> << calls >>, children |-> << >>]
ClassSym(name, method, calls) ==
  [name |-> name, kind |-> "class", calls |-> << >>,
   children |-> << << [name |-> method, kind |-> "method", calls |-> << calls >>,
                       children |-> << >>] >> >>]

\* callGraph.set for the children of one symbol
RECURSIVE setChildren(_, _, _)
setChildren(callGraph, sym, children) ==
  IF children = << >> THEN callGraph
  ELSE LET child == Head(children)
           next == IF child.calls # << >>
                   THEN Put(callGraph, sym.name \o "." \o child.name, child.calls[1])
                   ELSE callGraph
       IN setChildren(next, sym, Tail(children))

\* The call graph the command builds from the symbols of the indexed files.
RECURSIVE buildCallGraph(_, _)
buildCallGraph(callGraph, symbols) ==
  IF symbols = << >> THEN callGraph
  ELSE LET sym == Head(symbols)
           own == IF sym.calls # << >> THEN Put(callGraph, sym.name, sym.calls[1])
                  ELSE callGraph
           all == IF sym.children # << >> THEN setChildren(own, sym, sym.children[1])
                  ELSE own
       IN buildCallGraph(all, Tail(symbols))

\* The while loop of findPath: << >> for null, else << path >>.
RECURSIVE findPathLoop(_, _, _, _, _)
findPathLoop(callGraph, maxDepth, end, queue, visited) ==
  IF queue = << >> THEN << >>
  ELSE LET node == Head(queue).node
           path == Head(queue).path
       IN IF node = end THEN << path >>
          ELSE IF node \in visited \/ Len(path) > maxDepth
          THEN findPathLoop(callGraph, maxDepth, end, Tail(queue), visited)
          ELSE LET visited1 == visited \cup {node}
                   calls == IF node \in DOMAIN callGraph THEN callGraph[node] ELSE << >>
                   open == SelectSeq(calls, LAMBDA call : call \notin visited1)
                   pushed == [i \in 1..Len(open) |->
                                [node |-> open[i], path |-> Append(path, open[i])]]
               IN findPathLoop(callGraph, maxDepth, end, Tail(queue) \o pushed, visited1)

findPath(callGraph, maxDepth, start, end) ==
  findPathLoop(callGraph, maxDepth, end, << [node |-> start, path |-> <<start>>] >>, {})

\* project-index call-chain <from> <to> --depth <n>
ChainCmd ==
  \E from \in {"a", "b"}, to \in {"b", "c", "d"} :
    /\ chainOut = << >>
    /\ chainOut' = << [from |-> from, to |-> to,
                       path |-> findPath(buildCallGraph(EmptyMap, chainIn[1].symbols),
                                         chainIn[1].depth, from, to)] >>
    /\ UNCHANGED <<ivars, wvars, svars, evars, rvars, pvars, chainIn, lvars, tvars>>

InitChain ==
  /\ WatcherIdle /\ FilesIdle /\ EmbedderIdle /\ ServerIdle /\ ImpactIdle
  /\ tree = [p \in PathSet |-> Absent]
  /\ now = 0
  /\ diskState = "none"
  /\ disk = NoIndex
  /\ last = Record("init", << >>, "ok")
  /\ \E a \in CallLists, b \in CallLists, c \in CallLists, m \in CallLists,
        depth \in 1..MaxDepth :
       chainIn = << [symbols |-> << FunctionSym("a", NamesOf(a)),
                                    FunctionSym("b", NamesOf(b)),
                                    ClassSym("K", "m", NamesOf(m)),
                                    FunctionSym("c", NamesOf(c)) >>,
                     depth |-> depth] >>
  /\ chainOut = << >>

NextChain == ChainCmd

SpecChain == InitChain /\ [][NextChain]_vars

\* The calls lists of the indexed symbols called name, nested ones included.
RECURSIVE CallsOfName(_, _)
CallsOfName(symbols, name) ==
  IF symbols = << >> THEN {}
  ELSE LET sym == Head(symbols)
           own == IF sym.name = name /\ sym.calls # << >>
                  THEN SeqToSet(sym.calls[1]) ELSE {}
           nested == IF sym.children # << >> THEN CallsOfName(sym.children[1], name) ELSE {}
       IN own \cup nested \cup CallsOfName(Tail(symbols), name)

\* Names a chain of at most k calls leads to from name.
RECURSIVE CalledWithin(_, _, _)
CalledWithin(symbols, name, k) ==
  IF k = 0 THEN {name}
  ELSE LET near == CalledWithin(symbols, name, k - 1)
       IN near \cup UNION {CallsOfName(symbols, n) : n \in near}

\* C17: when a chain of at most depth calls leads from the source symbol to
\* the target, through top-level or nested symbols, the command reports a
\* path from source to target of at most depth edges; when there is none it
\* reports not-found.
C17_ChainFound ==
  chainOut # << >> =>
    LET out == chainOut[1]
        depth == chainIn[1].depth
    IN IF out.to \in CalledWithin(chainIn[1].symbols, out.from, depth)
       THEN /\ out.path # << >>
            /\ Len(out.path[1]) - 1 <= depth
            /\ out.path[1][1] = out.from
            /\ out.path[1][Len(out.path[1])] = out.to
       ELSE out.path = << >>

\* ---------------------------------------------------------- resident server
MaxRequests == 2     \* SpecServer: number of requests served

\* Request bodies as sent, and what JSON.parse makes of them: << >> when it
\* throws, else the fields the handlers read ("" for a field not there).
Bodies ==
  {"{\"query\":\"f\"}",
   "{\"query\":\"C\",\"exact\":true,\"model\":\"Xenova/bge-m3\"}",
   "{\"query\":"}
JSONparse(bodyStr) ==
  CASE bodyStr = "{\"query\":\"f\"}" ->
         << [query |-> "f", exact |-> FALSE, model |-> NoModel] >>
    [] bodyStr = "{\"query\":\"C\",\"exact\":true,\"model\":\"Xenova/bge-m3\"}" ->
         << [query |-> "C", exact |-> TRUE, model |-> "Xenova/bge-m3"] >>
    [] bodyStr = "{}" ->
         << [query |-> "", exact |-> FALSE, model |-> NoModel] >>
    [] OTHER -> << >>

\* The request callback: a body that does not parse is taken as {}.
parseBody(bodyStr) ==
  IF JSONparse(bodyStr) = << >> THEN JSONparse("{}")[1] ELSE JSONparse(bodyStr)[1]

Urls == {"/search", "/semsearch", "/reload"}

\* symbol.toLowerCase().includes(query) for the symbols and queries of the model
includes(symbol, query) ==
  <<symbol, query>> \in {<<"C", "c">>, <<"C.m", "c">>, <<"C.m", "m">>, <<"f", "f">>}

\* The entries buildDocCache derives from symbolIndex: id, file, line and
\* text of an entry are all functions of the pair (symbol, location).
DocEntries(index) == {<<sym, index.symbolIndex[sym]>> : sym \in DOMAIN index.symbolIndex}

\* embed() loads the pipeline of the instance.
Embedded(inst) == << [inst[1] EXCEPT !.pipe = TRUE] >>

\* buildDocCache(index, projectRoot, model, profile, reuse): the DocCache
\* it returns and Embedder.instance after it.
buildDocCache(index, model, profile, reuse, inst, n, gpu) ==
  LET embedder == get(inst, n, model, profile, gpu)
      entries == DocEntries(index)
  IN IF /\ reuse # << >>
        /\ reuse[1].model = embedder[1].model
        /\ Cardinality(reuse[1].entries) = Cardinality(entries)
     THEN [cache |-> reuse[1], instance |-> embedder]
     ELSE [cache |-> [model |-> embedder[1].model, entries |-> entries],
           instance |-> Embedded(embedder)]

\* ensureCache(state): threw, or the cache with what it left in state.cache,
\* in the cache file and in Embedder.instance.
ensureCache(cache, ds, d, file, inst, n, gpu) ==
  IF cache # << >>
  THEN [threw |-> FALSE, cache |-> cache, file |-> file, instance |-> inst]
  ELSE IF loadIndex(ds, d) = << >>
  THEN [threw |-> TRUE, cache |-> cache, file |-> file, instance |-> inst]
  ELSE IF file # << >>
  THEN [threw |-> FALSE, cache |-> file, file |-> file, instance |-> inst]
  ELSE LET built == buildDocCache(loadIndex(ds, d)[1], NoModel, "none", << >>, inst, n, gpu)
       IN [threw |-> FALSE, cache |-> << built.cache >>, file |-> << built.cache >>,
           instance |-> built.instance]

Reply(url, bodyStr, status, payload) ==
  [url |-> url, bodyStr |-> bodyStr, status |-> status, payload |-> payload]

\* POST /search
PostSearch ==
  \E bodyStr \in Bodies :
    LET body == parseBody(bodyStr)
        index == loadIndex(diskState, disk)
        reply ==
          IF body.query = "" THEN Reply("/search", bodyStr, 400, "query required")
          ELSE IF index = << >> THEN Reply("/search", bodyStr, 404, "No index found")
          ELSE Reply("/search", bodyStr, 200,
                     {e \in DocEntries(index[1]) :
                        IF body.exact THEN e[1] = body.query
                        ELSE includes(e[1], body.query)})
    IN /\ serverUp /\ requests < MaxRequests
       /\ requests' = requests + 1
       /\ response' = << reply >>
       /\ memo' = memo \cup {reply}
       /\ UNCHANGED <<ivars, wvars, svars, evars, pvars, cvars, stateCache, cacheFile, lvars, tvars>>

\* POST /semsearch
PostSemSearch ==
  \E bodyStr \in Bodies, gpu \in BOOLEAN :
    LET body == parseBody(bodyStr)
        ensured == ensureCache(stateCache, diskState, disk, cacheFile, instance, made, gpu)
        cache == ensured.cache[1]
        \* semanticSearchWithCache: Embedder.get(opts.model || cache.model)
        embedder == Embedded(get(ensured.instance, Made(ensured.instance, made),
                                 IF body.model # NoModel THEN body.model ELSE cache.model,
                                 "none", gpu))
        reply ==
          IF body.query = "" THEN Reply("/semsearch", bodyStr, 400, "query required")
          ELSE IF ensured.threw THEN Reply("/semsearch", bodyStr, 500, "Index not found")
          ELSE Reply("/semsearch", bodyStr, 200,
                     [entries |-> cache.entries, vectors |-> cache.model,
                      queryVec |-> embedder[1].model])
    IN /\ serverUp /\ requests < MaxRequests
       /\ requests' = requests + 1
       /\ response' = << reply >>
       /\ memo' = memo \cup {reply}
       /\ IF body.query = "" \/ ensured.threw
          THEN UNCHANGED <<stateCache, cacheFile, instance, made>>
          ELSE /\ stateCache' = ensured.cache
               /\ cacheFile' = ensured.file
               /\ instance' = embedder
               /\ made' = Made(embedder, made)
       /\ UNCHANGED <<ivars, wvars, svars, got, pvars, cvars, lvars, tvars>>

\* POST /reload: handleReload does not look at the body
PostReload ==
  \E bodyStr \in Bodies, gpu \in BOOLEAN :
    LET index == indexProject(tree, diskState, disk, now)
        built == buildDocCache(index, NoModel, "none", << >>, instance, made, gpu)
    IN /\ serverUp /\ requests < MaxRequests
       /\ requests' = requests + 1
       /\ saveIndex(index, "ok")
       /\ stateCache' = << built.cache >>
       /\ cacheFile' = << built.cache >>
       /\ instance' = built.instance
       /\ made' = Made(built.instance, made)
       /\ response' = << Reply("/reload", bodyStr, 200,
                               [files |-> Len(index.files),
                                vectors |-> Cardinality(built.cache.entries)]) >>
       /\ memo' = {}
       /\ last' = Record("reload", << >>, "ok")
       /\ UNCHANGED <<tree, now, wvars, svars, got, pvars, cvars, lvars, tvars>>

\* The server process is stopped and started again: start() makes a new
\* ServerState with cache: null.
ServerRestart ==
  /\ stateCache # << >> \/ instance # << >>
  /\ stateCache' = << >>
  /\ instance' = << >>
  /\ memo' = {}
  /\ UNCHANGED <<ivars, wvars, svars, made, got, pvars, cvars, cacheFile, response, requests, lvars, tvars>>

InitServer ==
  /\ WatcherIdle /\ FilesIdle /\ QueriesIdle
  /\ tree = [p \in PathSet |-> IF p = "a.ts" THEN "c1" ELSE Absent]
  /\ now = 0
  /\ diskState = "none"
  /\ disk = NoIndex
  /\ last = Record("init", << >>, "ok")

\* Other processes edit the tree and run project-index index meanwhile.
NextServer ==
  \/ TreeWrite \/ CmdIndex
  \/ PostSearch \/ PostSemSearch \/ PostReload \/ ServerRestart

SpecServer == InitServer /\ [][NextServer]_vars

RequestStep == requests' = requests + 1

\* C13: a cache read from disk is used only if its model is the current
\* embedder's and its entries are those derived from the current
\* symbolIndex; otherwise the cache is built anew and written.
C13_CacheReusePolicy ==
  [][(/\ RequestStep /\ response'[1].url = "/semsearch" /\ response'[1].status = 200
      /\ stateCache = << >> /\ cacheFile # << >>)
       => IF /\ cacheFile[1].model = instance'[1].model
             /\ cacheFile[1].entries = DocEntries(disk)
          THEN stateCache' = cacheFile
          ELSE /\ stateCache'[1].entries = DocEntries(disk)
               /\ stateCache'[1].model = instance'[1].model
               /\ cacheFile' = stateCache']_vars

\* C14: a /search or /semsearch request gets the response every request
\* with the same arguments got since the last /reload.
C14_StableUntilReload ==
  [][(RequestStep /\ response'[1].url # "/reload")
       => \A old \in memo :
            (old.url = response'[1].url /\ old.bodyStr = response'[1].bodyStr)
              => old = response'[1]]_vars

\* C15: a request whose body is not valid JSON is answered with status 400
\* and leaves the index file and the cache file as they were.
C15_BadJsonRejected ==
  [][(RequestStep /\ JSONparse(response'[1].bodyStr) = << >>)
       => (/\ response'[1].status = 400
           /\ diskState' = diskState /\ disk' = disk
           /\ cacheFile' = cacheFile)]_vars

\* ------------------------------------------- update with paths as typed
\* project-index update <files...>: the arguments reach updateIndex as typed
ArgPaths == PathSet \cup DOMAIN Dotted
ArgLists == {<<p>> : p \in ArgPaths}

CmdUpdateArgs ==
  \E changedFiles \in ArgLists, outcome \in SaveOutcomes :
    /\ saveIndex(updateIndex(tree, diskState, disk, changedFiles, now), outcome)
    /\ last' = Record("update", changedFiles, outcome)
    /\ UNCHANGED <<tree, now>> /\ UNCHANGED <<wvars, svars, xvars>>

NextArgs == TreeWrite \/ CmdIndex \/ CmdUpdateArgs

SpecArgs == Init /\ [][NextArgs]_vars

\* C24: every key of files is a normalized repo-relative path (no leading
\* "./"), and no source file has two FileRecords.
C24_KeysNormalized ==
  diskState = "ok"
    => /\ \A p \in FileKeys(disk.files) : join(p) = p
       /\ \A i, j \in 1..Len(disk.files) :
            join(disk.files[i].path) = join(disk.files[j].path) => i = j

\* ------------------------------------------- the calls and dead-code commands
CalleeNames == <<"m", "c", "_p", "K.m">>
Callees(l) == [i \in 1..Len(l) |-> CalleeNames[l[i]]]
startsWithUnderscore(name) == name \in {"_p"}

\* The lookup of the calls command: found is << >> for null, else
\* << foundSymbol >>; every match assigns it.
RECURSIVE lookupChildren(_, _, _, _)
lookupChildren(sym, children, symbol, found) ==
  IF children = << >> THEN found
  ELSE LET child == Head(children)
           next == IF child.name = symbol \/ sym.name \o "." \o child.name = symbol
                   THEN << child >> ELSE found
       IN lookupChildren(sym, Tail(children), symbol, next)

RECURSIVE lookup(_, _, _)
lookup(symbols, symbol, found) ==
  IF symbols = << >> THEN found
  ELSE LET sym == Head(symbols)
           own == IF sym.name = symbol THEN << sym >> ELSE found
           all == IF sym.children # << >>
                  THEN lookupChildren(sym, sym.children[1], symbol, own)
                  ELSE own
       IN lookup(Tail(symbols), symbol, all)

\* project-index calls <symbol>
CallsCmd ==
  \E symbol \in {"m", "K.m", "c", "x"} :
    /\ chainOut = << >>
    /\ LET foundSymbol == lookup(chainIn[1].symbols, symbol, << >>) IN
       chainOut' = << [cmd |-> "calls", symbol |-> symbol,
                       found |-> foundSymbol # << >>,
                       calls |-> IF foundSymbol # << >> /\ foundSymbol[1].calls # << >>
                                 THEN foundSymbol[1].calls[1] ELSE << >>] >>
    /\ UNCHANGED <<ivars, wvars, svars, evars, rvars, pvars, chainIn, lvars, tvars>>

\* allFunctions of the dead-code command
RECURSIVE methodNames(_, _, _)
methodNames(sym, children, includePrivate) ==
  IF children = << >> THEN {}
  ELSE LET child == Head(children)
           own == IF child.kind = "method"
                     /\ ~(~includePrivate /\ startsWithUnderscore(child.name))
                  THEN {child.name, sym.name \o "." \o child.name} ELSE {}
       IN own \cup methodNames(sym, Tail(children), includePrivate)

RECURSIVE allFunctions(_, _)
allFunctions(symbols, includePrivate) ==
  IF symbols = << >> THEN {}
  ELSE LET sym == Head(symbols)
           own == IF sym.kind \in {"function", "method"}
                     /\ ~(~includePrivate /\ startsWithUnderscore(sym.name))
                  THEN {sym.name} ELSE {}
           nested == IF sym.children # << >>
                     THEN methodNames(sym, sym.children[1], includePrivate) ELSE {}
       IN own \cup nested \cup allFunctions(Tail(symbols), includePrivate)

\* calledFunctions of the dead-code command
RECURSIVE calledFunctions(_)
calledFunctions(symbols) ==
  IF symbols = << >> THEN {}
  ELSE LET sym == Head(symbols)
           own == IF sym.calls # << >> THEN SeqToSet(sym.calls[1]) ELSE {}
           nested == IF sym.children # << >>
                     THEN UNION {IF sym.children[1][i].calls # << >>
                                 THEN SeqToSet(sym.children[1][i].calls[1]) ELSE {} :
                                   i \in 1..Len(sym.children[1])}
                     ELSE {}
       IN own \cup nested \cup calledFunctions(Tail(symbols))

\* project-index dead-code [--include-private]
DeadCodeCmd ==
  \E includePrivate \in BOOLEAN :
    /\ chainOut = << >>
    /\ chainOut' = << [cmd |-> "dead-code", includePrivate |-> includePrivate,
                       deadFunctions |-> allFunctions(chainIn[1].symbols, includePrivate)
                                           \ calledFunctions(chainIn[1].symbols)] >>
    /\ UNCHANGED <<ivars, wvars, svars, evars, rvars, pvars, chainIn, lvars, tvars>>

InitCalls ==
  /\ WatcherIdle /\ FilesIdle /\ EmbedderIdle /\ ServerIdle /\ ImpactIdle
  /\ tree = [p \in PathSet |-> Absent]
  /\ now = 0
  /\ diskState = "none"
  /\ disk = NoIndex
  /\ last = Record("init", << >>, "ok")
  /\ \E m \in CallLists, km \in CallLists, p \in CallLists, c \in CallLists :
       chainIn = << [symbols |-> << FunctionSym("m", Callees(m)),
                                    ClassSym("K", "m", Callees(km)),
                                    FunctionSym("_p", Callees(p)),
                                    FunctionSym("c", Callees(c)) >>] >>
  /\ chainOut = << >>

NextCalls == CallsCmd \/ DeadCodeCmd

SpecCalls == InitCalls /\ [][NextCalls]_vars

\* The symbols that match a name, in search order: files in index order, a
\* top-level symbol before its children.
RECURSIVE MatchesInOrder(_, _)
MatchesInOrder(symbols, symbol) ==
  IF symbols = << >> THEN << >>
  ELSE LET sym == Head(symbols)
           own == IF sym.name = symbol THEN << sym >> ELSE << >>
           kids == IF sym.children # << >> THEN sym.children[1] ELSE << >>
           nested == SelectSeq(kids, LAMBDA child :
                                 child.name = symbol
                                   \/ sym.name \o "." \o child.name = symbol)
       IN own \o nested \o MatchesInOrder(Tail(symbols), symbol)

\* C25: when several indexed symbols match the name given to the calls
\* command, it prints the calls list of the first match in search order.
C25_FirstMatchWins ==
  (chainOut # << >> /\ chainOut[1].cmd = "calls")
    => LET ms == MatchesInOrder(chainIn[1].symbols, chainOut[1].symbol) IN
       ms # << >>
         => /\ chainOut[1].found
            /\ chainOut[1].calls = IF ms[1].calls # << >> THEN ms[1].calls[1] ELSE << >>

\* Whether dead-code is to report a function or method of this name.
Dead(symbols, name, includePrivate) ==
  /\ name \notin calledFunctions(symbols)
  /\ includePrivate \/ ~startsWithUnderscore(name)

\* C26: dead-code reports a function or method exactly when its name is in no
\* calls list and, unless private names are included, does not start with
\* '_'; a method is reported under neither its plain nor its class-qualified
\* name when its name is in some calls list.
C26_DeadCodeExact ==
  (chainOut # << >> /\ chainOut[1].cmd = "dead-code")
    => LET symbols == chainIn[1].symbols
           out == chainOut[1]
       IN \A i \in 1..Len(symbols) :
            /\ symbols[i].kind = "function"
                 => (symbols[i].name \in out.deadFunctions
                       <=> Dead(symbols, symbols[i].name, out.includePrivate))
            /\ symbols[i].children # << >>
                 => \A j \in 1..Len(symbols[i].children[1]) :
                      LET child == symbols[i].children[1][j] IN
                      ({child.name, symbols[i].name \o "." \o child.name}
                          \cap out.deadFunctions # {})
                        <=> Dead(symbols, child.name, out.includePrivate)

\* C23: a semantic search scores the query against the cache with a query
\* vector of the model that produced the cache's vectors; when the request
\* names another model the cache it scores against is one built for that
\* model.
C23_OneModelPerSearch ==
  [][(RequestStep /\ response'[1].url = "/semsearch" /\ response'[1].status = 200)
       => /\ response'[1].payload.queryVec = response'[1].payload.vectors
          /\ stateCache'[1].model = response'[1].payload.queryVec]_vars

\* ------------------------------------------------ /reload, await by await
\* handleReload up to its first suspension, `await this.discoverFiles()` in
\* indexProject.  The body of the request is not looked at.
ReloadStart ==
  /\ serverUp /\ requests < MaxRequests
  /\ requests' = requests + 1
  /\ reloads' = Append([i \in 1..Len(reloads) |-> [reloads[i] EXCEPT !.overlapped = TRUE]],
                       [req |-> requests + 1, at |-> "discoverFiles",
                        overlapped |-> reloads # << >>,
                        index |-> NoIndex, cache |-> << >>])
  /\ UNCHANGED <<ivars, wvars, svars, evars, pvars, cvars, tvars,
                 stateCache, cacheFile, response, memo, answered, serverUp>>

\* handleReload throws: the promise of the 'end' callback is rejected and
\* nothing handles it.  No response is sent; depending on the Node version
\* the process ends with it (crash) or goes on.
Rejected(i, crash) ==
  IF crash
  THEN /\ serverUp' = FALSE /\ reloads' = << >>
       /\ stateCache' = << >> /\ instance' = << >>
  ELSE /\ reloads' = RemoveAt(reloads, i)
       /\ UNCHANGED <<serverUp, stateCache, instance>>

\* discoverFiles resolves: the files are indexed, saveIndex runs, and
\* buildDocCache runs up to `await embedder.embed(texts)`.
ReloadIndexed ==
  \E i \in 1..Len(reloads), outcome \in SaveOutcomes, gpu \in BOOLEAN, crash \in BOOLEAN :
    LET index == indexDiscovered(tree, discoverFiles(tree), diskState, disk, now)
        embedder == get(instance, made, NoModel, "none", gpu)
    IN /\ reloads[i].at = "discoverFiles"
       /\ saveIndex(index, outcome)
       /\ last' = Record("reload", << >>, outcome)
       /\ IF outcome = "ok"
          THEN /\ ~crash
               /\ reloads' = [reloads EXCEPT
                                ![i].at = "embed", ![i].index = index,
                                ![i].cache = << [model |-> embedder[1].model,
                                                 entries |-> DocEntries(index)] >>]
               /\ instance' = embedder
               /\ made' = Made(embedder, made)
               /\ UNCHANGED <<serverUp, stateCache>>
          ELSE Rejected(i, crash) /\ UNCHANGED made
       /\ UNCHANGED <<tree, now, wvars, svars, got, pvars, cvars, tvars,
                      cacheFile, response, memo, requests, answered>>

\* embed resolves: state.cache is assigned, writeCache runs and the
\* response is sent; or embed rejects.
ReloadEmbedded ==
  \E i \in 1..Len(reloads), ok \in BOOLEAN, crash \in BOOLEAN :
    /\ reloads[i].at = "embed"
    /\ IF ok
       THEN /\ ~crash
            /\ stateCache' = reloads[i].cache
            /\ cacheFile' = reloads[i].cache
            /\ instance' = IF instance # << >> /\ instance[1].model = reloads[i].cache[1].model
                           THEN Embedded(instance) ELSE instance
            /\ response' = << Reply("/reload", "{}", 200,
                                    [files |-> Len(reloads[i].index.files),
                                     vectors |-> Cardinality(reloads[i].cache[1].entries)]) >>
            /\ answered' = answered \cup {[req |-> reloads[i].req,
                                            overlapped |-> reloads[i].overlapped]}
            /\ memo' = {}
            /\ reloads' = RemoveAt(reloads, i)
            /\ UNCHANGED serverUp
       ELSE /\ Rejected(i, crash)
            /\ UNCHANGED <<cacheFile, response, answered, memo>>
    /\ UNCHANGED <<ivars, wvars, svars, made, got, pvars, cvars, tvars, requests>>

\* The server starts over an index built by project-index index and a cache
\* built from it.
InitReload ==
  /\ WatcherIdle /\ FilesIdle /\ ImpactIdle /\ ChainIdle
  /\ tree = [p \in PathSet |-> IF p = "a.ts" THEN "c1" ELSE Absent]
  /\ now = 0
  /\ diskState = "ok"
  /\ disk = indexProject(tree, "none", NoIndex, 0)
  /\ last = Record("index", << >>, "ok")
  /\ \E gpu \in BOOLEAN :
       LET built == buildDocCache(disk, NoModel, "none", << >>, << >>, 0, gpu)
       IN /\ stateCache = << built.cache >>
          /\ cacheFile = << built.cache >>
          /\ instance = built.instance
          /\ made = Made(built.instance, 0)
  /\ got = << >> /\ response = << >> /\ memo = {} /\ requests = 0
  /\ reloads = << >> /\ answered = {} /\ serverUp = TRUE

NextReload ==
  \/ TreeWrite \/ PostSearch \/ PostSemSearch
  \/ ReloadStart \/ ReloadIndexed \/ ReloadEmbedded

SpecReload == InitReload /\ [][NextReload]_vars

\* An await of handleReload settles, one way or the other: weak fairness of
\* ReloadIndexed and of ReloadEmbedded.  For ReloadIndexed the fairness
\* condition is written out, with AwaitsDiscoverFiles for ENABLED.
AwaitsDiscoverFiles == \E i \in 1..Len(reloads) : reloads[i].at = "discoverFiles"
SpecReloadLive ==
  /\ SpecReload
  /\ ([]<>(~AwaitsDiscoverFiles) \/ []<><<ReloadIndexed>>_vars)
  /\ WF_vars(ReloadEmbedded)

\* A /search or /semsearch request is answered while a /reload is running.
AnsweredDuringReload ==
  /\ requests' = requests + 1 /\ reloads # << >> /\ reloads' = reloads
  /\ response'[1].status = 200

\* C21: a /search or /semsearch request answered while a /reload is in
\* progress sees one snapshot: the index /search reads and the cache
\* /semsearch scores against belong together, both old or both new.
C21_OneSnapshot ==
  [][AnsweredDuringReload
       => (stateCache' # << >> /\ diskState = "ok"
             => stateCache'[1].entries = DocEntries(disk))]_vars

\* C22: every /reload request taken up is eventually answered, also when
\* saving the index or embedding fails.
C22_EveryRequestAnswered ==
  \A r \in 1..MaxRequests :
    (\E i \in 1..Len(reloads) : reloads[i].req = r)
      ~> (\E a \in answered : a.req = r)

\* C28: once two overlapping /reload requests have both completed, the
\* entries of state.cache and of the cache file are those derived from the
\* symbolIndex of the index on disk.
C28_OverlapConsistent ==
  (/\ reloads = << >> /\ serverUp /\ diskState = "ok"
   /\ Cardinality(answered) = 2 /\ \A a \in answered : a.overlapped)
    => /\ stateCache # << >> /\ stateCache[1].entries = DocEntries(disk)
       /\ cacheFile # << >> /\ cacheFile[1].entries = DocEntries(disk)

\* ------------------------------------------------- start() called again
MaxStarts == 2

\* start() on an IndexWatcher that was started before.  With isRunning set
\* it returns at once; else it makes a new FSWatcher, assigns it to
\* this.watcher and registers the signal handlers.
StartAgain ==
  /\ LoopIdle /\ fsw # "none" /\ registered < MaxStarts
  /\ ~isRunning
  /\ leaked' = IF fsw = "open" THEN leaked + 1 ELSE leaked
  /\ watcher' = "set" /\ fsw' = "open" /\ readyPending' = TRUE
  /\ registered' = registered + 1
  /\ UNCHANGED <<ivars, started, isRunning, pendingFiles, timeoutId, slices, stops,
                 fsQueue, fsChanges, signals, owed, quiet, burst, exited, svars,
                 evars, rvars, pvars, cvars, lvars>>

NextStart ==
  \/ WatchCmd \/ StartAgain \/ Ready \/ Signal \/ StopAfterClose \/ HandlerExit

SpecStart == InitWatcher /\ [][NextStart]_vars

\* FSWatchers that are open.
ActiveWatchers == leaked + (IF fsw = "open" THEN 1 ELSE 0)

\* C30: however often start() is called, at most one FSWatcher is open and
\* the signal handlers are registered once, and when stop() has returned
\* no FSWatcher is open.
C30_OneWatcherOneHandler ==
  /\ ActiveWatchers <= 1
  /\ registered <= 1
  /\ (watcher = "null" /\ fsw = "closed") => ActiveWatchers = 0

\* ------------------------------------- the watcher while nothing fails
\* The watch process without shutdown signals, every save succeeding.  The
\* index file may be unreadable when the process starts.
InitQuiet ==
  /\ WatcherIdle /\ FilesIdle /\ QueriesIdle
  /\ tree \in {[p \in PathSet |-> Absent], [p \in PathSet |-> IF p = "a.ts" THEN "c1" ELSE "c2"]}
  /\ now = 0
  /\ diskState \in {"none", "torn"}
  /\ disk = NoIndex
  /\ last = Record("init", << >>, "ok")

MaxQuietChanges == 2

WatchCmdOk == WatchCmd /\ last'.outcome = "ok"
EditorChangeQuiet == EditorChange /\ fsChanges < MaxQuietChanges
OnUnlinkOk == OnUnlink /\ last'.outcome = "ok"
SliceFinishOk == SliceFinish /\ last'.outcome = "ok"

NextQuiet ==
  \/ WatchCmdOk \/ Ready \/ EditorChangeQuiet \/ OnAddOrChange \/ OnUnlinkOk
  \/ Elapse \/ Later \/ DiscoverFilesDone \/ SliceFinishOk

SpecQuiet == InitQuiet /\ [][NextQuiet]_vars

\* The event loop runs what is ready: a reported event is handled, time
\* passes, a due timeout fires, discoverFiles resolves and a slice that can
\* go on does.  For the two handlers that rebuild the index the weak
\* fairness condition is written out with EventDue and SliceDue for ENABLED.
EventDue(events) ==
  LoopIdle /\ fsw = "open" /\ fsQueue # << >> /\ Head(fsQueue).event \in events
SliceDue == ~exited /\ \E i \in 1..Len(slices) : slices[i].at = "indexFile"
SpecQuietLive ==
  /\ SpecQuiet
  /\ WF_vars(OnAddOrChange) /\ WF_vars(Elapse) /\ WF_vars(Later)
  /\ WF_vars(DiscoverFilesDone)
  /\ ([]<>(~EventDue({"unlink"})) \/ []<><<OnUnlinkOk>>_vars)
  /\ ([]<>(~SliceDue) \/ []<><<SliceFinishOk>>_vars)

\* The index on disk has p with the hash of p's content.
Reflected(p) ==
  /\ diskState = "ok" /\ p \in FileKeys(disk.files)
  /\ FileAt(disk.files, p).hash = calculateHash(tree[p])

====
